---- MODULE Spec2Model ----
(***************************************************************************)
(* A model of the temporal transaction graph service of                   *)
(* raphtory-service: graph/graph_manager.py (class GraphManager), the     *)
(* REST boundary api/server.py and the export thread of main.py.          *)
(*                                                                         *)
(* GraphManager keeps its data in a raphtory Graph.  The library is not   *)
(* part of the repository; the operators of the section "raphtory Graph"  *)
(* model the behaviour of the library calls the manager makes:            *)
(*   - a node is identified by its name; add_node and add_edge record a   *)
(*     time on the node, the node's (and the graph's) earliest_time and   *)
(*     latest_time are the minimum and maximum of the recorded times;     *)
(*   - an edge is identified by its ordered (src, dst) pair within a      *)
(*     layer; add_edge on an existing pair appends a temporal update to   *)
(*     that edge, it does not create a second edge.  count_edges, edges,  *)
(*     out_edges and in_edges range over edges, not over updates;         *)
(*   - edge.properties.get(k) is the value of the latest update (by time, *)
(*     then by insertion) visible in the view; edge.earliest_time is the  *)
(*     smallest update time visible in the view;                          *)
(*   - window(start, end) is the view of the updates with                 *)
(*     start <= time < end;                                               *)
(*   - add_node and add_edge may raise (a timestamp or a property value   *)
(*     of a type the graph does not take); the read calls do not.         *)
(* The manager's spelling of the library members (edges(), out_edges(),   *)
(* src().name) is taken to denote the members of those names.             *)
(*                                                                         *)
(* The handlers of api/server.py run under FastAPI, which is not part of  *)
(* the repository either.  Of the framework the model takes this: the     *)
(* value a route handler returns is sent with the status of its route;    *)
(* an exception a route handler raises goes to the handler registered for *)
(* its class, and the framework awaits the value that handler returns as  *)
(* the response to send; a value that is no response object cannot be     *)
(* sent, the error passes to the handler registered for Exception under   *)
(* the same rule, and if that fails as well the server answers 500.       *)
(***************************************************************************)
EXTENDS Integers, Sequences, FiniteSets, TLC

(***************************************************************************)
(* Bounds and input domains                                                *)
(***************************************************************************)
\* add_transaction calls made since construction or the last clear()
MaxTx == 2
\* largest max_depth handed to find_paths
MaxDepth == 3
\* writes (add_transaction, clear) made while the export thread runs beside the event loop
MaxWrites == 2
\* the writer calls one thread issues
MaxWriterCalls == 1
\* the transactions of the graphs that are searched for paths
MaxPathTx == 3

Addresses == {"A", "B"}
TopoAddresses == {"A", "B", "C"}
Timestamps == {1, 2}
TopoTimestamps == {1}
Amounts == {10}
TopoAmounts == {10}
BlockNumbers == {12345}
Contracts == {"TR7"}
Directions == {"in", "out", "both"}

\* Optional[...] values: None is the empty set, a value v is {v}
None == {}
Some(v) == {v}

Min(S) == CHOOSE x \in S : \A y \in S : x <= y
Max(S) == CHOOSE x \in S : \A y \in S : x >= y

RECURSIVE SetToSeq(_)
SetToSeq(S) ==
    IF S = {} THEN <<>>
    ELSE LET x == CHOOSE y \in S : TRUE IN <<x>> \o SetToSeq(S \ {x})

RECURSIVE SumSeq(_)
SumSeq(s) == IF s = <<>> THEN 0 ELSE Head(s) + SumSeq(Tail(s))

Range(s) == {s[i] : i \in DOMAIN s}

VARIABLES
    graph_manager,         \* api/server.py: the module global, None until startup_event ran
    graph,                 \* self.graph
    _transaction_count,    \* self._transaction_count
    _node_count,           \* self._node_count
    _edge_count,           \* self._edge_count
    persistent,            \* self.persistent
    log,                   \* history: the add_transaction calls since construction / clear()
    last,                  \* the call being answered and what it returns, idle when none
    pc,                    \* where the event loop thread and the export thread stand
    frame,                 \* the locals of the call each thread is in
    seen,                  \* history: the statistics after each write of the threads, in order
    overlap                \* history: the writes that ran while the export thread was reading

vars == <<graph_manager, graph, _transaction_count, _node_count, _edge_count, persistent, log, last,
          pc, frame, seen, overlap>>

(***************************************************************************)
(* raphtory Graph                                                          *)
(***************************************************************************)
\* Graph(): no node, no edge
Graph == [events |-> {}, edges |-> <<>>]

\* PersistentGraph(): no node, no edge
PersistentGraph == [events |-> {}, edges |-> <<>>]

has_node(g, a) == \E e \in g.events : e[1] = a

NodeNames(g) == {e[1] : e \in g.events}

\* a count of the node updates instead of the nodes
count_node_updates(g) == Cardinality(g.events)

count_nodes(g) == Cardinality(NodeNames(g))

count_edges(g) == Len(g.edges)

\* graph.add_node(timestamp, address, ...): creates the node if absent, records the time
add_node(g, t, a) == [g EXCEPT !.events = @ \cup {<<a, t>>}]

EdgeIndex(g, s, d) ==
    IF \E i \in DOMAIN g.edges : g.edges[i].src = s /\ g.edges[i].dst = d
    THEN CHOOSE i \in DOMAIN g.edges : g.edges[i].src = s /\ g.edges[i].dst = d
    ELSE 0

\* an add_edge that leaves the nodes as they are
add_edge_between_existing(g, t, s, d, props) ==
    LET i == EdgeIndex(g, s, d)
        upd == [time |-> t, props |-> props]
    IN IF i = 0
       THEN [events |-> g.events,
             edges |-> Append(g.edges, [src |-> s, dst |-> d, updates |-> <<upd>>])]
       ELSE [events |-> g.events,
             edges |-> [g.edges EXCEPT ![i].updates = Append(@, upd)]]

\* graph.add_edge(timestamp, src, dst, properties, layer): creates missing endpoints,
\* creates the edge (src, dst) if absent, appends the update to it
add_edge(g, t, s, d, props) ==
    LET i == EdgeIndex(g, s, d)
        upd == [time |-> t, props |-> props]
        ev == g.events \cup {<<s, t>>, <<d, t>>}
    IN IF i = 0
       THEN [events |-> ev,
             edges |-> Append(g.edges, [src |-> s, dst |-> d, updates |-> <<upd>>])]
       ELSE [events |-> ev,
             edges |-> [g.edges EXCEPT ![i].updates = Append(@, upd)]]

\* graph.window(start, end): the updates with start <= time < end, and the edges and
\* nodes that have one
InWindow(t, start, end) == start <= t /\ t < end

window(g, start, end) ==
    LET cut(e) == [e EXCEPT !.updates = SelectSeq(@, LAMBDA u : InWindow(u.time, start, end))]
        kept == SelectSeq(g.edges, LAMBDA e : cut(e).updates # <<>>)
    IN [events |-> {ev \in g.events : InWindow(ev[2], start, end)},
        edges |-> [i \in DOMAIN kept |-> cut(kept[i])]]

\* edge.properties.get(k): the value of the latest update of the edge
LatestUpdate(e) ==
    LET i == CHOOSE i \in DOMAIN e.updates :
                 \A j \in DOMAIN e.updates :
                     \/ e.updates[j].time < e.updates[i].time
                     \/ e.updates[j].time = e.updates[i].time /\ j <= i
    IN e.updates[i]

edge_earliest_time(e) == Min({e.updates[i].time : i \in DOMAIN e.updates})

\* out-edges that leave out the edges from a node to itself
out_edges_without_loops(g, a) == SelectSeq(g.edges, LAMBDA e : e.src = a /\ e.dst # a)

out_edges(g, a) == SelectSeq(g.edges, LAMBDA e : e.src = a)

in_edges(g, a) == SelectSeq(g.edges, LAMBDA e : e.dst = a)

NodeTimes(g, a) == {e[2] : e \in {x \in g.events : x[1] = a}}

node_earliest_time(g, a) == Min(NodeTimes(g, a))

node_latest_time(g, a) == Max(NodeTimes(g, a))

graph_earliest_time(g) ==
    IF g.events = {} THEN None ELSE Some(Min({e[2] : e \in g.events}))

graph_latest_time(g) ==
    IF g.events = {} THEN None ELSE Some(Max({e[2] : e \in g.events}))

(***************************************************************************)
(* GraphManager.  A manager value m is the object's attributes.            *)
(***************************************************************************)
Manager(g, tc, nc, ec, p) ==
    [graph |-> g, _transaction_count |-> tc, _node_count |-> nc, _edge_count |-> ec,
     persistent |-> p]

self == Manager(graph, _transaction_count, _node_count, _edge_count, persistent)

\* GraphManager.__init__(persistent)
NewManager(p) == Manager(IF p THEN PersistentGraph ELSE Graph, 0, 0, 0, p)

\* _add_or_update_node, its first statement: count the node if the graph has none
count_new_node(m, address) ==
    IF ~has_node(m.graph, address)
    THEN [m EXCEPT !._node_count = @ + 1]
    ELSE m

\* _add_or_update_node, its second statement; raises: graph.add_node raised (caught, logged)
insert_node(m, address, timestamp, raises) ==
    IF raises
    THEN m
    ELSE [m EXCEPT !.graph = add_node(@, timestamp, address)]

\* GraphManager._add_or_update_node
add_or_update_node(m, address, timestamp, raises) ==
    insert_node(count_new_node(m, address), address, timestamp, raises)

EdgeProperties(tx) ==
    [tx_hash |-> tx.tx_hash, amount |-> tx.amount, block_number |-> tx.block_number,
     contract |-> tx.contract]

\* add_transaction, the statement self.graph.add_edge(...)
insert_edge(m, tx) ==
    [m EXCEPT !.graph = add_edge(@, tx.timestamp, tx.from_address, tx.to_address,
                                 EdgeProperties(tx))]

\* a statement that takes one from _transaction_count
discount_transaction(m) == [m EXCEPT !._transaction_count = @ - 1]

\* add_transaction, the statement self._transaction_count += 1
count_transaction(m) == [m EXCEPT !._transaction_count = @ + 1]

\* add_transaction, the statement self._edge_count += 1
count_edge(m) == [m EXCEPT !._edge_count = @ + 1]

\* an add_transaction that counts the transaction before it inserts the edge
add_transaction_counting_first(m, tx, raises) ==
    LET m1 == add_or_update_node(m, tx.from_address, tx.timestamp, raises.n1)
        m2 == count_edge(count_transaction(
                  add_or_update_node(m1, tx.to_address, tx.timestamp, raises.n2)))
    IN IF raises.e
       THEN [m |-> m2, ret |-> FALSE]
       ELSE [m |-> insert_edge(m2, tx), ret |-> TRUE]

\* GraphManager.add_transaction; raises.n1, raises.n2: the add_node of the sender, of the
\* receiver raised; raises.e: graph.add_edge raised.  The manager after the call and the
\* value returned.
add_transaction(m, tx, raises) ==
    LET m1 == add_or_update_node(m, tx.from_address, tx.timestamp, raises.n1)
        m2 == add_or_update_node(m1, tx.to_address, tx.timestamp, raises.n2)
    IN IF raises.e
       THEN [m |-> m2, ret |-> FALSE]
       ELSE [m |-> count_edge(count_transaction(insert_edge(m2, tx))), ret |-> TRUE]

\* a clear that keeps the graph it had
keep_graph(m) == m

\* clear, the statement that replaces self.graph
replace_graph(m) == [m EXCEPT !.graph = IF m.persistent THEN PersistentGraph ELSE Graph]

\* a clear that leaves _transaction_count as it was
keep_transaction_count(m) == m

\* clear, the three statements that reset the counters
reset_transaction_count(m) == [m EXCEPT !._transaction_count = 0]

reset_node_count(m) == [m EXCEPT !._node_count = 0]

reset_edge_count(m) == [m EXCEPT !._edge_count = 0]

\* GraphManager.clear
clear(m) == reset_edge_count(reset_node_count(reset_transaction_count(replace_graph(m))))

\* GraphManager.get_statistics (the try branch)
get_statistics(m) ==
    [node_count |-> count_nodes(m.graph),
     edge_count |-> count_edges(m.graph),
     transaction_count |-> m._transaction_count,
     earliest_time |-> graph_earliest_time(m.graph),
     latest_time |-> graph_latest_time(m.graph),
     persistent |-> m.persistent]

\* GraphManager.save_snapshot: False for a graph that is not persistent
save_snapshot(m) == m.persistent

\* GraphManager.get_statistics (the except branch)
get_statistics_fallback(m) ==
    [node_count |-> m._node_count,
     edge_count |-> m._edge_count,
     transaction_count |-> m._transaction_count,
     persistent |-> m.persistent]

\* a get_node_info that answers for an address the graph does not have
get_node_info_of_any(m, address) ==
    LET oe == out_edges(m.graph, address)
        ie == in_edges(m.graph, address)
    IN Some([address |-> address,
             first_seen |-> IF has_node(m.graph, address)
                            THEN Some(node_earliest_time(m.graph, address)) ELSE None,
             transaction_count |-> Len(oe) + Len(ie),
             sent_count |-> Len(oe),
             received_count |-> Len(ie)])

\* float(amount): an amount is the decimal string of an integer, written here as that
\* integer; the integers used are below 2^31 and a double holds each of them exactly
float(a) == a

\* GraphManager.get_node_info: None, or the record
get_node_info(m, address) ==
    IF ~has_node(m.graph, address)
    THEN None
    ELSE LET oe == out_edges(m.graph, address)
             ie == in_edges(m.graph, address)
             total_sent == SumSeq([i \in DOMAIN oe |-> float(LatestUpdate(oe[i]).props.amount)])
             total_received == SumSeq([i \in DOMAIN ie |-> float(LatestUpdate(ie[i]).props.amount)])
         IN Some([address |-> address,
                  first_seen |-> node_earliest_time(m.graph, address),
                  last_seen |-> node_latest_time(m.graph, address),
                  transaction_count |-> Len(oe) + Len(ie),
                  sent_count |-> Len(oe),
                  received_count |-> Len(ie),
                  total_sent |-> total_sent,
                  total_received |-> total_received,
                  balance_flow |-> total_received - total_sent])

TransactionDict(e) ==
    [from |-> e.src,
     to |-> e.dst,
     amount |-> LatestUpdate(e).props.amount,
     tx_hash |-> LatestUpdate(e).props.tx_hash,
     block_number |-> LatestUpdate(e).props.block_number,
     timestamp |-> edge_earliest_time(e)]

\* a loop that tests the limit after it has appended
RECURSIVE WindowLoopTestsAfter(_, _, _)
WindowLoopTestsAfter(edges, transactions, limit) ==
    IF edges = <<>> THEN transactions
    ELSE LET appended == Append(transactions, TransactionDict(Head(edges)))
         IN IF Len(appended) >= limit THEN appended
            ELSE WindowLoopTestsAfter(Tail(edges), appended, limit)

\* the loop of get_transactions_in_window over windowed_graph.edges()
RECURSIVE WindowLoop(_, _, _)
WindowLoop(edges, transactions, limit) ==
    IF edges = <<>> THEN transactions
    ELSE IF Len(transactions) >= limit THEN transactions
    ELSE WindowLoop(Tail(edges), Append(transactions, TransactionDict(Head(edges))), limit)

\* GraphManager.get_transactions_in_window
get_transactions_in_window(m, start_time, end_time, limit) ==
    WindowLoop(window(m.graph, start_time, end_time).edges, <<>>, limit)

\* a neighbor set that takes the in-edges for "in" only
NeighborSetNoInForBoth(m, address, direction) ==
    LET outs == IF direction \in {"out", "both"}
                THEN {e.dst : e \in Range(out_edges(m.graph, address))}
                ELSE {}
        ins == IF direction = "in"
               THEN {e.src : e \in Range(in_edges(m.graph, address))}
               ELSE {}
    IN outs \cup ins

\* the set built by get_neighbors
NeighborSet(m, address, direction) ==
    LET outs == IF direction \in {"out", "both"}
                THEN {e.dst : e \in Range(out_edges(m.graph, address))}
                ELSE {}
        ins == IF direction \in {"in", "both"}
               THEN {e.src : e \in Range(in_edges(m.graph, address))}
               ELSE {}
    IN outs \cup ins

\* GraphManager.get_neighbors: list(neighbors), in the set's iteration order
get_neighbors(m, address, direction) ==
    IF ~has_node(m.graph, address)
    THEN <<>>
    ELSE SetToSeq(NeighborSet(m, address, direction))

\* the queue entries find_paths appends for the neighbors nb of the last node of a path
Extensions(current_path, visited, nb) ==
    [i \in DOMAIN nb |->
        [path |-> Append(current_path, nb[i]), visited |-> visited \cup {nb[i]}]]

\* the neighbors find_paths explores from a node: those not yet on the path
Unvisited(m, current_node, visited) ==
    SelectSeq(get_neighbors(m, current_node, "out"), LAMBDA n : n \notin visited)

\* an iteration that also explores the neighbors already on the path
PathStepRevisiting(m, queue, paths, to_address, max_depth) ==
    LET current_path == Head(queue).path
        visited == Head(queue).visited
        rest == Tail(queue)
        current_node == current_path[Len(current_path)]
    IN IF Len(current_path) > max_depth
       THEN [queue |-> rest, paths |-> paths]
       ELSE IF current_node = to_address /\ Len(current_path) > 1
       THEN [queue |-> rest, paths |-> Append(paths, current_path)]
       ELSE [queue |-> rest \o Extensions(current_path, visited,
                                          get_neighbors(m, current_node, "out")),
             paths |-> paths]

\* an iteration that puts the new entries at the front of the queue
PathStepLifo(m, queue, paths, to_address, max_depth) ==
    LET current_path == Head(queue).path
        visited == Head(queue).visited
        rest == Tail(queue)
        current_node == current_path[Len(current_path)]
    IN IF Len(current_path) > max_depth
       THEN [queue |-> rest, paths |-> paths]
       ELSE IF current_node = to_address /\ Len(current_path) > 1
       THEN [queue |-> rest, paths |-> Append(paths, current_path)]
       ELSE [queue |-> Extensions(current_path, visited,
                                  Unvisited(m, current_node, visited)) \o rest,
             paths |-> paths]

\* an iteration that leaves a path longer than max_depth in the queue
PathStepKeepsLong(m, queue, paths, to_address, max_depth) ==
    LET current_path == Head(queue).path
        visited == Head(queue).visited
        rest == Tail(queue)
        current_node == current_path[Len(current_path)]
    IN IF Len(current_path) > max_depth
       THEN [queue |-> queue, paths |-> paths]
       ELSE IF current_node = to_address /\ Len(current_path) > 1
       THEN [queue |-> rest, paths |-> Append(paths, current_path)]
       ELSE [queue |-> rest \o Extensions(current_path, visited,
                                          Unvisited(m, current_node, visited)),
             paths |-> paths]

\* one iteration of the while loop of find_paths, the queue not being empty: the queue
\* and the paths after it
PathStep(m, queue, paths, to_address, max_depth) ==
    LET current_path == Head(queue).path
        visited == Head(queue).visited
        rest == Tail(queue)
        current_node == current_path[Len(current_path)]
    IN IF Len(current_path) > max_depth
       THEN [queue |-> rest, paths |-> paths]
       ELSE IF current_node = to_address /\ Len(current_path) > 1
       THEN [queue |-> rest, paths |-> Append(paths, current_path)]
       ELSE [queue |-> rest \o Extensions(current_path, visited,
                                          Unvisited(m, current_node, visited)),
             paths |-> paths]

\* the while loop of find_paths
RECURSIVE PathLoop(_, _, _, _, _)
PathLoop(m, queue, paths, to_address, max_depth) ==
    IF queue = <<>> THEN paths
    ELSE LET after == PathStep(m, queue, paths, to_address, max_depth)
         IN PathLoop(m, after.queue, after.paths, to_address, max_depth)

\* the queue find_paths starts with
InitialQueue(from_address) == <<[path |-> <<from_address>>, visited |-> {from_address}]>>

\* GraphManager.find_paths
find_paths(m, from_address, to_address, max_depth) ==
    IF ~has_node(m.graph, from_address) \/ ~has_node(m.graph, to_address)
    THEN <<>>
    ELSE PathLoop(m, InitialQueue(from_address), <<>>, to_address, max_depth)

(***************************************************************************)
(* The calls a client makes, one action per call                           *)
(***************************************************************************)
Idle == [op |-> "idle"]

Init ==
    /\ graph_manager = Some("GraphManager")
    /\ graph = NewManager(FALSE).graph
    /\ _transaction_count = NewManager(FALSE)._transaction_count
    /\ _node_count = NewManager(FALSE)._node_count
    /\ _edge_count = NewManager(FALSE)._edge_count
    /\ persistent = NewManager(FALSE).persistent
    /\ log = <<>>
    /\ last = Idle
    /\ pc = [loop |-> "idle", export |-> "sleep"]
    /\ frame = [loop |-> <<>>, export |-> <<>>]
    /\ seen = <<get_statistics(NewManager(FALSE))>>
    /\ overlap = {}

Becomes(m) ==
    /\ graph' = m.graph
    /\ _transaction_count' = m._transaction_count
    /\ _node_count' = m._node_count
    /\ _edge_count' = m._edge_count
    /\ persistent' = m.persistent
    /\ UNCHANGED graph_manager

\* a query that sets _node_count to the graph's number of nodes
Resynchronised ==
    /\ UNCHANGED <<graph_manager, graph, _transaction_count, _edge_count, persistent>>
    /\ _node_count' = count_nodes(graph)

\* a query: no statement of the read methods assigns an attribute
Unchanged ==
    UNCHANGED <<graph_manager, graph, _transaction_count, _node_count, _edge_count, persistent>>

\* a call that runs to its end with no other thread in between
Alone == pc.loop = "idle" /\ UNCHANGED <<pc, frame, seen, overlap>>

Transactions(A, T, M) ==
    [tx_hash : {Len(log) + 1}, from_address : A, to_address : A, amount : M,
     timestamp : T, block_number : BlockNumbers, contract : Contracts]

\* what the library calls of one add_transaction do: none raises; add_edge alone raises
\* (a property value of another type than the property has); all three raise (a timestamp
\* or an address of a type the graph does not take)
Raises ==
    {[n1 |-> FALSE, n2 |-> FALSE, e |-> FALSE],
     [n1 |-> FALSE, n2 |-> FALSE, e |-> TRUE],
     [n1 |-> TRUE, n2 |-> TRUE, e |-> TRUE]}

NoRaise == {[n1 |-> FALSE, n2 |-> FALSE, e |-> FALSE]}

\* a call of add_transaction, the manager holding fewer than n calls
AddTransactionOf(A, T, M, R, n) ==
    /\ Len(log) < n
    /\ last = Idle
    /\ Alone
    /\ \E tx \in Transactions(A, T, M), raises \in R :
           LET r == add_transaction(self, tx, raises)
           IN /\ Becomes(r.m)
              /\ log' = Append(log, [tx |-> tx, ok |-> r.ret])
              /\ last' = [op |-> "add_transaction", tx |-> tx, result |-> r.ret]

AddTransaction(A, T, M) ==
    /\ Len(log) < MaxTx
    /\ last = Idle
    /\ Alone
    /\ \E tx \in Transactions(A, T, M), raises \in Raises :
           LET r == add_transaction(self, tx, raises)
           IN /\ Becomes(r.m)
              /\ log' = Append(log, [tx |-> tx, ok |-> r.ret])
              /\ last' = [op |-> "add_transaction", tx |-> tx, result |-> r.ret]

Clear ==
    /\ last = Idle
    /\ Alone
    /\ Becomes(clear(self))
    /\ log' = <<>>
    /\ last' = [op |-> "clear", discarded |-> Len(log), before |-> get_statistics(self)]

GetStatistics ==
    /\ last = Idle
    /\ Alone
    /\ Unchanged
    /\ UNCHANGED log
    /\ last' = [op |-> "get_statistics", result |-> get_statistics(self)]

GetNodeInfo(A) ==
    /\ last = Idle
    /\ Alone
    /\ Unchanged
    /\ UNCHANGED log
    /\ \E a \in A :
           last' = [op |-> "get_node_info", address |-> a, result |-> get_node_info(self, a)]

WindowBounds(T) == T \cup {Max(T) + 1}

GetTransactionsInWindow(T) ==
    /\ last = Idle
    /\ Alone
    /\ Unchanged
    /\ UNCHANGED log
    /\ \E start \in WindowBounds(T), end \in WindowBounds(T), limit \in (-1)..MaxTx :
           last' = [op |-> "get_transactions_in_window",
                    start_time |-> start, end_time |-> end, limit |-> limit,
                    result |-> get_transactions_in_window(self, start, end, limit)]

\* TransactionResponse(...) of a dict of the window scan
TransactionResponse(tx) ==
    [from_address |-> tx.from, to_address |-> tx.to, amount |-> tx.amount,
     tx_hash |-> tx.tx_hash, block_number |-> tx.block_number, timestamp |-> tx.timestamp]

\* HTTPException(status_code=..., detail=...)
HTTPException(status_code, detail) == [status_code |-> status_code, detail |-> detail]

\* ErrorResponse(error=..., detail=...) of api/models.py: a pydantic model
ErrorResponse(error, detail) == [model |-> "ErrorResponse", error |-> error, detail |-> detail]

\* http_exception_handler: it returns the model, which carries the status as a string
http_exception_handler(exc) == ErrorResponse(exc.detail, ToString(exc.status_code))

\* general_exception_handler
general_exception_handler(exc) == ErrorResponse("Internal server error", exc)

\* the value is a response object the framework can send
IsResponse(value) == "response" \in DOMAIN value

\* what the client receives when a route handler raises HTTPException(status_code, detail)
\* after the calls it has made: the framework sends what http_exception_handler returns;
\* a value that is no response raises a TypeError, which goes to
\* general_exception_handler; when its value is no response either, the server answers
\* 500 itself
raise_HTTPException(status_code, detail, calls) ==
    LET handled == http_exception_handler(HTTPException(status_code, detail))
        again == general_exception_handler("'ErrorResponse' object is not callable")
    IN IF IsResponse(handled)
       THEN [status |-> handled.status_code, calls |-> calls, body |-> handled.content]
       ELSE IF IsResponse(again)
       THEN [status |-> again.status_code, calls |-> calls, body |-> again.content]
       ELSE [status |-> 500, calls |-> calls, body |-> "Internal Server Error"]

\* the test every route handler starts with: graph_manager is None
guarded(response) ==
    IF graph_manager = None
    THEN raise_HTTPException(503, "Graph manager not initialized", <<>>)
    ELSE response

\* the handler of GET /graph/window in api/server.py, graph_manager being set: the
\* status, the manager methods it called and the body
api_get_transactions_in_window(m, start, end, limit) ==
    IF start >= end
    THEN raise_HTTPException(400, "Start time must be before end time", <<>>)
    ELSE LET transactions == get_transactions_in_window(m, start, end, limit)
         IN [status |-> 200,
             calls |-> <<"get_transactions_in_window">>,
             body |-> [i \in DOMAIN transactions |-> TransactionResponse(transactions[i])]]

\* GET /graph/window?start=&end=&limit= ; limit is validated ge=1 by the Query
WindowEndpoint(T) ==
    /\ last = Idle
    /\ Alone
    /\ Unchanged
    /\ UNCHANGED log
    /\ \E start \in WindowBounds(T), end \in WindowBounds(T), limit \in 1..MaxTx :
           last' = [op |-> "GET /graph/window", start |-> start, end |-> end,
                    limit |-> limit,
                    response |-> guarded(api_get_transactions_in_window(self, start, end,
                                                                         limit))]

GetNeighbors(A) ==
    /\ last = Idle
    /\ Alone
    /\ Unchanged
    /\ UNCHANGED log
    /\ \E a \in A, d \in Directions :
           last' = [op |-> "get_neighbors", address |-> a, direction |-> d,
                    result |-> get_neighbors(self, a, d)]

FindPaths(A) ==
    /\ last = Idle
    /\ Alone
    /\ Unchanged
    /\ UNCHANGED log
    /\ \E f \in A, t \in A, d \in (-1)..MaxDepth :
           last' = [op |-> "find_paths", from_address |-> f, to_address |-> t,
                    max_depth |-> d, result |-> find_paths(self, f, t, d)]

\* the answer is delivered to the caller; the handlers of api/server.py run one at a time
\* on the event loop
Return ==
    /\ last # Idle
    /\ Alone
    /\ last' = Idle
    /\ UNCHANGED <<graph_manager, graph, _transaction_count, _node_count, _edge_count,
                   persistent, log>>

\* the write path and every query: two addresses, two timestamps
Next ==
    \/ AddTransaction(Addresses, Timestamps, Amounts)
    \/ Clear
    \/ GetStatistics
    \/ GetNodeInfo(Addresses)
    \/ GetTransactionsInWindow(Timestamps)
    \/ WindowEndpoint(Timestamps)
    \/ GetNeighbors(Addresses)
    \/ FindPaths(Addresses)
    \/ Return

Spec == Init /\ [][Next]_vars

\* the write path and the traversal queries: three addresses, one timestamp, one amount,
\* so that the graphs differ in their topology
NextTopo ==
    \/ AddTransaction(TopoAddresses, TopoTimestamps, TopoAmounts)
    \/ Clear
    \/ GetNeighbors(TopoAddresses)
    \/ FindPaths(TopoAddresses)
    \/ Return

SpecTopo == Init /\ [][NextTopo]_vars

\* the path search on the graphs of up to MaxPathTx transactions over three addresses
NextPaths ==
    \/ AddTransactionOf(TopoAddresses, TopoTimestamps, TopoAmounts, NoRaise, MaxPathTx)
    \/ Clear
    \/ FindPaths(TopoAddresses)
    \/ Return

SpecPaths == Init /\ [][NextPaths]_vars

(***************************************************************************)
(* find_paths, one step per iteration of its while loop.  frame.loop holds *)
(* the call's arguments and its locals queue and paths.                    *)
(***************************************************************************)
\* find_paths is called: it returns [] for an absent endpoint, or sets up paths and queue
StartSearch(A) ==
    /\ last = Idle
    /\ pc.loop = "idle"
    /\ \E f \in A, t \in A, d \in (-1)..MaxDepth :
           IF ~has_node(graph, f) \/ ~has_node(graph, t)
           THEN /\ last' = [op |-> "find_paths", from_address |-> f, to_address |-> t,
                            max_depth |-> d, result |-> <<>>]
                /\ UNCHANGED <<pc, frame>>
           ELSE /\ pc' = [pc EXCEPT !.loop = "find_paths"]
                /\ frame' = [frame EXCEPT !.loop =
                                [from_address |-> f, to_address |-> t, max_depth |-> d,
                                 queue |-> InitialQueue(f), paths |-> <<>>]]
                /\ UNCHANGED last
    /\ Unchanged
    /\ UNCHANGED <<log, seen, overlap>>

\* while queue: one iteration
SearchStep ==
    /\ pc.loop = "find_paths"
    /\ frame.loop.queue # <<>>
    /\ LET after == PathStep(self, frame.loop.queue, frame.loop.paths,
                             frame.loop.to_address, frame.loop.max_depth)
       IN frame' = [frame EXCEPT !.loop.queue = after.queue, !.loop.paths = after.paths]
    /\ Unchanged
    /\ UNCHANGED <<pc, log, last, seen, overlap>>

\* the queue is empty: return paths
SearchReturn ==
    /\ pc.loop = "find_paths"
    /\ frame.loop.queue = <<>>
    /\ last' = [op |-> "find_paths", from_address |-> frame.loop.from_address,
                to_address |-> frame.loop.to_address, max_depth |-> frame.loop.max_depth,
                result |-> frame.loop.paths]
    /\ pc' = [pc EXCEPT !.loop = "idle"]
    /\ frame' = [frame EXCEPT !.loop = <<>>]
    /\ Unchanged
    /\ UNCHANGED <<log, seen, overlap>>

NextSearch ==
    \/ AddTransactionOf(TopoAddresses, TopoTimestamps, TopoAmounts, NoRaise, MaxTx)
    \/ Clear
    \/ StartSearch(TopoAddresses)
    \/ SearchStep
    \/ SearchReturn
    \/ Return

\* the thread that runs find_paths keeps running
SpecSearch ==
    Init /\ [][NextSearch]_vars /\ WF_vars(SearchStep) /\ WF_vars(SearchReturn)

(***************************************************************************)
(* The two threads of main.py.  The event loop thread runs the handlers of *)
(* api/server.py, one at a time; the export thread of run_graphql_server   *)
(* wakes up, hands graph_manager.graph to send_graph and calls             *)
(* get_statistics.  No lock is taken anywhere, so the threads interleave   *)
(* between any two statements; each library call and each attribute        *)
(* access is one step.  The library calls made here do not raise.          *)
(***************************************************************************)
Reading == pc.export \notin {"sleep", "done"}

\* a statement of the event loop thread: the manager becomes m, the thread goes to next
LoopStep(kind, m, next) ==
    /\ Becomes(m)
    /\ pc' = [pc EXCEPT !.loop = next]
    /\ overlap' = IF Reading THEN overlap \cup {kind} ELSE overlap
    /\ UNCHANGED last

\* the handler returns: the write is complete
LoopReturn(m, entry) ==
    /\ LoopStep(frame.loop.kind, m, "idle")
    /\ log' = entry
    /\ seen' = Append(seen, get_statistics(m))
    /\ UNCHANGED frame

\* add_transaction is entered and runs the first statement of _add_or_update_node(from)
CountFrom(A, T, M, R) ==
    /\ pc.loop = "idle"
    /\ last = Idle
    /\ Len(log) < MaxTx
    /\ Len(seen) <= MaxWrites
    /\ \E tx \in Transactions(A, T, M), raises \in R :
           /\ frame' = [frame EXCEPT !.loop = [kind |-> "add_transaction", tx |-> tx,
                                               raises |-> raises]]
           /\ LoopStep("add_transaction", count_new_node(self, tx.from_address), "insert_from")
    /\ UNCHANGED <<log, seen>>

InsertFrom ==
    /\ pc.loop = "insert_from"
    /\ LoopStep(frame.loop.kind, insert_node(self, frame.loop.tx.from_address, frame.loop.tx.timestamp,
                            frame.loop.raises.n1), "count_to")
    /\ UNCHANGED <<log, seen, frame>>

CountTo ==
    /\ pc.loop = "count_to"
    /\ LoopStep(frame.loop.kind, count_new_node(self, frame.loop.tx.to_address), "insert_to")
    /\ UNCHANGED <<log, seen, frame>>

InsertTo ==
    /\ pc.loop = "insert_to"
    /\ LoopStep(frame.loop.kind, insert_node(self, frame.loop.tx.to_address, frame.loop.tx.timestamp,
                            frame.loop.raises.n2), "insert_edge")
    /\ UNCHANGED <<log, seen, frame>>

\* graph.add_edge raises and add_transaction returns False, or the edge is inserted
InsertEdge ==
    /\ pc.loop = "insert_edge"
    /\ IF frame.loop.raises.e
       THEN LoopReturn(self, Append(log, [tx |-> frame.loop.tx, ok |-> FALSE]))
       ELSE /\ LoopStep(frame.loop.kind, insert_edge(self, frame.loop.tx), "count_transaction")
            /\ UNCHANGED <<log, seen, frame>>

CountTransaction ==
    /\ pc.loop = "count_transaction"
    /\ LoopStep(frame.loop.kind, count_transaction(self), "count_edge")
    /\ UNCHANGED <<log, seen, frame>>

CountEdge ==
    /\ pc.loop = "count_edge"
    /\ LoopReturn(count_edge(self), Append(log, [tx |-> frame.loop.tx, ok |-> TRUE]))

\* clear is entered and replaces self.graph
ReplaceGraph ==
    /\ pc.loop = "idle"
    /\ last = Idle
    /\ Len(seen) <= MaxWrites
    /\ frame' = [frame EXCEPT !.loop = [kind |-> "clear"]]
    /\ LoopStep("clear", replace_graph(self), "reset_transaction_count")
    /\ UNCHANGED <<log, seen>>

ResetTransactionCount ==
    /\ pc.loop = "reset_transaction_count"
    /\ LoopStep(frame.loop.kind, reset_transaction_count(self), "reset_node_count")
    /\ UNCHANGED <<log, seen, frame>>

ResetNodeCount ==
    /\ pc.loop = "reset_node_count"
    /\ LoopStep(frame.loop.kind, reset_node_count(self), "reset_edge_count")
    /\ UNCHANGED <<log, seen, frame>>

ResetEdgeCount ==
    /\ pc.loop = "reset_edge_count"
    /\ LoopReturn(reset_edge_count(self), <<>>)

\* the keys of the dict get_statistics builds, in the order it evaluates them
StatisticsKeys ==
    <<"node_count", "edge_count", "transaction_count", "earliest_time", "latest_time",
      "persistent">>

\* the export thread wakes up and hands self.graph to client.send_graph
SendGraph ==
    /\ pc.export = "sleep"
    /\ frame' = [frame EXCEPT !.export =
                    [sent |-> [node_count |-> count_nodes(graph),
                               edge_count |-> count_edges(graph)],
                     next |-> 1,
                     stats |-> <<>>]]
    /\ pc' = [pc EXCEPT !.export = "get_statistics"]
    /\ overlap' = IF pc.loop = "idle" THEN {} ELSE {frame.loop.kind}
    /\ Unchanged
    /\ UNCHANGED <<log, last, seen>>

\* get_statistics in the export thread evaluates the next value of its dict
ReadStatistic ==
    /\ pc.export = "get_statistics"
    /\ LET key == StatisticsKeys[frame.export.next]
           stats == frame.export.stats
       IN frame' = [frame EXCEPT
                       !.export.stats = [k \in DOMAIN stats \cup {key} |->
                                            IF k = key THEN get_statistics(self)[key]
                                            ELSE stats[k]],
                       !.export.next = @ + 1]
    /\ pc' = [pc EXCEPT !.export =
                 IF frame.export.next = Len(StatisticsKeys) THEN "done" ELSE @]
    /\ Unchanged
    /\ UNCHANGED <<log, last, seen, overlap>>

\* the export thread has logged the statistics and sleeps until the next round
Sleep ==
    /\ pc.export = "done"
    /\ pc' = [pc EXCEPT !.export = "sleep"]
    /\ Unchanged
    /\ UNCHANGED <<log, last, seen, overlap, frame>>

NextThreads ==
    \/ CountFrom(Addresses, TopoTimestamps, Amounts, NoRaise)
    \/ InsertFrom
    \/ CountTo
    \/ InsertTo
    \/ InsertEdge
    \/ CountTransaction
    \/ CountEdge
    \/ ReplaceGraph
    \/ ResetTransactionCount
    \/ ResetNodeCount
    \/ ResetEdgeCount
    \/ SendGraph
    \/ ReadStatistic
    \/ Sleep

SpecThreads == Init /\ [][NextThreads]_vars

(***************************************************************************)
(* The statements of add_transaction and clear one by one, with no reader  *)
(* in between, each of the three library calls of add_transaction raising  *)
(* or not: add_node raising is caught in _add_or_update_node and the       *)
(* method goes on to the next statement.                                   *)
(***************************************************************************)
AnyRaises == [n1 : BOOLEAN, n2 : BOOLEAN, e : BOOLEAN]

NextStatements ==
    \/ CountFrom(Addresses, Timestamps, Amounts, AnyRaises)
    \/ InsertFrom
    \/ CountTo
    \/ InsertTo
    \/ InsertEdge
    \/ CountTransaction
    \/ CountEdge
    \/ ReplaceGraph
    \/ ResetTransactionCount
    \/ ResetNodeCount
    \/ ResetEdgeCount

SpecStatements == Init /\ [][NextStatements]_vars

(***************************************************************************)
(* The service of api/server.py from before its startup event: the module  *)
(* global graph_manager is None until startup_event has run, and every     *)
(* route handler tests it first.  A response is the status the client      *)
(* receives, the manager methods the handler called and the body; the      *)
(* timestamp of the health response, read from the clock, is left out.     *)
(***************************************************************************)
InitService ==
    /\ graph_manager = None
    /\ graph = NewManager(FALSE).graph
    /\ _transaction_count = NewManager(FALSE)._transaction_count
    /\ _node_count = NewManager(FALSE)._node_count
    /\ _edge_count = NewManager(FALSE)._edge_count
    /\ persistent = NewManager(FALSE).persistent
    /\ log = <<>>
    /\ last = Idle
    /\ pc = [loop |-> "idle", export |-> "sleep"]
    /\ frame = [loop |-> <<>>, export |-> <<>>]
    /\ seen = <<>>
    /\ overlap = {}

\* startup_event: graph_manager = GraphManager(persistent=False)
startup_event ==
    /\ graph_manager = None
    /\ last = Idle
    /\ Alone
    /\ graph_manager' = Some("GraphManager")
    /\ graph' = NewManager(FALSE).graph
    /\ _transaction_count' = NewManager(FALSE)._transaction_count
    /\ _node_count' = NewManager(FALSE)._node_count
    /\ _edge_count' = NewManager(FALSE)._edge_count
    /\ persistent' = NewManager(FALSE).persistent
    /\ log' = <<>>
    /\ UNCHANGED last

\* the handler of GET /health, graph_manager being set
api_health_check(m) ==
    [status |-> 200,
     calls |-> <<"get_statistics">>,
     body |-> [status |-> "healthy", graph_stats |-> get_statistics(m)]]

\* GET /health
HealthEndpoint ==
    /\ last = Idle
    /\ Alone
    /\ Unchanged
    /\ UNCHANGED log
    /\ last' = [op |-> "GET /health", response |-> guarded(api_health_check(self))]

\* the handler of POST /graph/transaction, graph_manager being set, success being what
\* graph_manager.add_transaction returned
api_add_transaction(success) ==
    IF ~success
    THEN raise_HTTPException(500, "Failed to add transaction to graph", <<"add_transaction">>)
    ELSE [status |-> 201,
          calls |-> <<"add_transaction">>,
          body |-> [success |-> TRUE, message |-> "Transaction added successfully"]]

\* POST /graph/transaction
TransactionEndpoint(A, T, M) ==
    /\ last = Idle
    /\ Alone
    /\ Len(log) < MaxTx
    /\ \E tx \in Transactions(A, T, M), raises \in Raises :
           IF graph_manager = None
           THEN /\ Unchanged
                /\ UNCHANGED log
                /\ last' = [op |-> "POST /graph/transaction", tx |-> tx,
                            response |-> guarded(<<>>)]
           ELSE LET r == add_transaction(self, tx, raises)
                IN /\ Becomes(r.m)
                   /\ log' = Append(log, [tx |-> tx, ok |-> r.ret])
                   /\ last' = [op |-> "POST /graph/transaction", tx |-> tx,
                               success |-> r.ret,
                               response |-> guarded(api_add_transaction(r.ret))]

\* the handler of GET /graph/node/{address}, graph_manager being set
api_get_node_info(m, address) ==
    IF get_node_info(m, address) = None
    THEN raise_HTTPException(404, "Node not found", <<"get_node_info">>)
    ELSE [status |-> 200,
          calls |-> <<"get_node_info">>,
          body |-> CHOOSE node_info \in get_node_info(m, address) : TRUE]

\* GET /graph/node/{address}
NodeEndpoint(A) ==
    /\ last = Idle
    /\ Alone
    /\ Unchanged
    /\ UNCHANGED log
    /\ \E a \in A :
           last' = [op |-> "GET /graph/node", address |-> a,
                    response |-> guarded(api_get_node_info(self, a))]

\* the handler of GET /graph/neighbors/{address}, graph_manager being set
api_get_neighbors(m, address, direction) ==
    LET neighbors == get_neighbors(m, address, direction)
    IN [status |-> 200,
        calls |-> <<"get_neighbors">>,
        body |-> [address |-> address, neighbors |-> neighbors, count |-> Len(neighbors)]]

\* GET /graph/neighbors/{address}?direction= ; direction is validated by the Query
NeighborsEndpoint(A) ==
    /\ last = Idle
    /\ Alone
    /\ Unchanged
    /\ UNCHANGED log
    /\ \E a \in A, d \in Directions :
           last' = [op |-> "GET /graph/neighbors", address |-> a, direction |-> d,
                    response |-> guarded(api_get_neighbors(self, a, d))]

\* the handler of GET /graph/paths, graph_manager being set
api_find_paths(m, from_address, to_address, max_depth) ==
    LET paths == find_paths(m, from_address, to_address, max_depth)
    IN [status |-> 200,
        calls |-> <<"find_paths">>,
        body |-> [from_address |-> from_address, to_address |-> to_address,
                  paths |-> paths, count |-> Len(paths)]]

\* GET /graph/paths?from=&to=&max_depth= ; max_depth is validated ge=1 by the Query
PathsEndpoint(A) ==
    /\ last = Idle
    /\ Alone
    /\ Unchanged
    /\ UNCHANGED log
    /\ \E f \in A, t \in A, d \in 1..MaxDepth :
           last' = [op |-> "GET /graph/paths", from_address |-> f, to_address |-> t,
                    max_depth |-> d, response |-> guarded(api_find_paths(self, f, t, d))]

\* the handler of GET /graph/statistics, graph_manager being set
api_get_graph_statistics(m) ==
    [status |-> 200, calls |-> <<"get_statistics">>, body |-> get_statistics(m)]

\* GET /graph/statistics
StatisticsEndpoint ==
    /\ last = Idle
    /\ Alone
    /\ Unchanged
    /\ UNCHANGED log
    /\ last' = [op |-> "GET /graph/statistics",
                response |-> guarded(api_get_graph_statistics(self))]

\* the handler of POST /graph/snapshot, graph_manager being set
api_save_snapshot(m) ==
    IF ~save_snapshot(m)
    THEN raise_HTTPException(500, "Failed to save snapshot", <<"save_snapshot">>)
    ELSE [status |-> 200,
          calls |-> <<"save_snapshot">>,
          body |-> [success |-> TRUE, message |-> "Snapshot saved successfully"]]

\* POST /graph/snapshot
SnapshotEndpoint ==
    /\ last = Idle
    /\ Alone
    /\ Unchanged
    /\ UNCHANGED log
    /\ last' = [op |-> "POST /graph/snapshot", response |-> guarded(api_save_snapshot(self))]

\* the handler of DELETE /graph/clear, graph_manager being set
api_clear_graph ==
    [status |-> 200,
     calls |-> <<"clear">>,
     body |-> [success |-> TRUE, message |-> "Graph cleared successfully"]]

\* DELETE /graph/clear
ClearEndpoint ==
    /\ last = Idle
    /\ Alone
    /\ IF graph_manager = None
       THEN Unchanged /\ UNCHANGED log
       ELSE Becomes(clear(self)) /\ log' = <<>>
    /\ last' = [op |-> "DELETE /graph/clear", response |-> guarded(api_clear_graph)]

NextService ==
    \/ startup_event
    \/ HealthEndpoint
    \/ TransactionEndpoint(Addresses, Timestamps, Amounts)
    \/ NodeEndpoint(Addresses)
    \/ WindowEndpoint(Timestamps)
    \/ NeighborsEndpoint(Addresses)
    \/ PathsEndpoint(Addresses)
    \/ StatisticsEndpoint
    \/ SnapshotEndpoint
    \/ ClearEndpoint
    \/ Return

SpecService == InitService /\ [][NextService]_vars

(***************************************************************************)
(* Two threads that share one GraphManager, as the threads of main.py do,  *)
(* and each call its writers.  GraphManager takes no lock, so the threads  *)
(* interleave between any two statements of add_transaction and clear; a   *)
(* statement, "+= 1" included, is one step.  The library calls made here   *)
(* do not raise.  log holds, per thread, the calls it has issued.          *)
(***************************************************************************)
Writers == {"w1", "w2"}

InitWriters ==
    /\ graph_manager = Some("GraphManager")
    /\ graph = NewManager(FALSE).graph
    /\ _transaction_count = NewManager(FALSE)._transaction_count
    /\ _node_count = NewManager(FALSE)._node_count
    /\ _edge_count = NewManager(FALSE)._edge_count
    /\ persistent = NewManager(FALSE).persistent
    /\ log = [t \in Writers |-> <<>>]
    /\ last = Idle
    /\ pc = [t \in Writers |-> "idle"]
    /\ frame = [t \in Writers |-> <<>>]
    /\ seen = <<>>
    /\ overlap = {}

WriterCalls ==
    {[kind |-> "clear"]} \cup
    [kind : {"add_transaction"},
     tx : [tx_hash : {Len(log.w1) + Len(log.w2) + 1}, from_address : Addresses,
           to_address : Addresses, amount : Amounts, timestamp : TopoTimestamps,
           block_number : BlockNumbers, contract : Contracts]]

\* the first statement of a writer, and the position after it
first_statement(m, call) ==
    IF call.kind = "clear"
    THEN [m |-> replace_graph(m), next |-> "reset_transaction_count"]
    ELSE [m |-> count_new_node(m, call.tx.from_address), next |-> "insert_from"]

\* the statement at a position of a writer, and the position after it
next_statement(m, call, at) ==
    CASE at = "insert_from" ->
             [m |-> insert_node(m, call.tx.from_address, call.tx.timestamp, FALSE),
              next |-> "count_to"]
      [] at = "count_to" ->
             [m |-> count_new_node(m, call.tx.to_address), next |-> "insert_to"]
      [] at = "insert_to" ->
             [m |-> insert_node(m, call.tx.to_address, call.tx.timestamp, FALSE),
              next |-> "insert_edge"]
      [] at = "insert_edge" -> [m |-> insert_edge(m, call.tx), next |-> "count_transaction"]
      [] at = "count_transaction" -> [m |-> count_transaction(m), next |-> "count_edge"]
      [] at = "count_edge" -> [m |-> count_edge(m), next |-> "idle"]
      [] at = "reset_transaction_count" ->
             [m |-> reset_transaction_count(m), next |-> "reset_node_count"]
      [] at = "reset_node_count" -> [m |-> reset_node_count(m), next |-> "reset_edge_count"]
      [] at = "reset_edge_count" -> [m |-> reset_edge_count(m), next |-> "idle"]

\* thread t enters add_transaction or clear and runs its first statement
WriterEnters(t) ==
    /\ pc[t] = "idle"
    /\ Len(log[t]) < MaxWriterCalls
    /\ \E call \in WriterCalls :
           /\ log' = [log EXCEPT ![t] = Append(@, call)]
           /\ frame' = [frame EXCEPT ![t] = call]
           /\ Becomes(first_statement(self, call).m)
           /\ pc' = [pc EXCEPT ![t] = first_statement(self, call).next]
    /\ UNCHANGED <<last, seen, overlap>>

\* thread t runs the next statement of the writer it is in
WriterRuns(t) ==
    /\ pc[t] # "idle"
    /\ Becomes(next_statement(self, frame[t], pc[t]).m)
    /\ pc' = [pc EXCEPT ![t] = next_statement(self, frame[t], pc[t]).next]
    /\ UNCHANGED <<log, frame, last, seen, overlap>>

NextWriters == \E t \in Writers : WriterEnters(t) \/ WriterRuns(t)

SpecWriters == InitWriters /\ [][NextWriters]_vars

(***************************************************************************)
(* What the claims are measured against: the transactions the manager has  *)
(* accepted since construction or the last clear(), taken from the log     *)
(***************************************************************************)
StoredTx == {log[i].tx : i \in {j \in DOMAIN log : log[j].ok}}

AllSucceeded == \A i \in DOMAIN log : log[i].ok

AddressesOf(txs) == {tx.from_address : tx \in txs} \cup {tx.to_address : tx \in txs}

\* the manager, as a client can observe it
Observable == [statistics |-> get_statistics(self), nodes |-> NodeNames(graph)]

Injective(p) == \A i, j \in DOMAIN p : p[i] = p[j] => i = j

\* the simple directed paths over the stored transactions with 1..k edges
SimplePaths(from, to, k) ==
    {p \in UNION {[1..n -> AddressesOf(StoredTx)] : n \in 2..(Cardinality(AddressesOf(StoredTx)))} :
        /\ p[1] = from
        /\ p[Len(p)] = to
        /\ Injective(p)
        /\ Len(p) - 1 <= k
        /\ \A i \in 1..(Len(p) - 1) :
               \E tx \in StoredTx : tx.from_address = p[i] /\ tx.to_address = p[i + 1]}

\* the record a window scan is to return for a stored transaction
RecordOf(tx) ==
    [from |-> tx.from_address, to |-> tx.to_address, amount |-> tx.amount,
     tx_hash |-> tx.tx_hash, block_number |-> tx.block_number, timestamp |-> tx.timestamp]

(***************************************************************************)
(* C1: after N successful add_transaction calls on a fresh or cleared      *)
(* manager, get_statistics reports transaction_count = N and               *)
(* edge_count = N, also when several transactions join the same pair.      *)
(***************************************************************************)
C1_CountersEqualCalls ==
    (last.op = "get_statistics" /\ AllSucceeded) =>
        /\ last.result.transaction_count = Len(log)
        /\ last.result.edge_count = Len(log)

(***************************************************************************)
(* C2: with both endpoints present and max_depth >= 1, find_paths returns  *)
(* exactly the simple directed paths of 1..max_depth edges.                *)
(***************************************************************************)
C2_PathsUpToMaxDepthEdges ==
    (/\ last.op = "find_paths"
     /\ has_node(graph, last.from_address)
     /\ has_node(graph, last.to_address)
     /\ last.max_depth >= 1) =>
        Range(last.result) = SimplePaths(last.from_address, last.to_address, last.max_depth)

(***************************************************************************)
(* C3: a read that runs interleaved with an add_transaction returns the    *)
(* values of the graph after some whole number of completed writes: the    *)
(* statistics the export thread collected, and the graph it handed to      *)
(* send_graph, are those of a write boundary.                              *)
(***************************************************************************)
SentAt(h) == [node_count |-> h.node_count, edge_count |-> h.edge_count]

ExportReadIsWhole ==
    /\ frame.export.stats \in Range(seen)
    /\ frame.export.sent \in {SentAt(h) : h \in Range(seen)}

C3_ReadSeesWholeTransactions ==
    (pc.export = "done" /\ pc.loop = "idle" /\ overlap = {"add_transaction"}) =>
        ExportReadIsWhole

(***************************************************************************)
(* C4: a read that runs while clear() executes returns either the values   *)
(* before the clear or the empty values after it, never a mix.             *)
(***************************************************************************)
C4_ReadSeesWholeClear ==
    (pc.export = "done" /\ pc.loop = "idle" /\ overlap = {"clear"}) =>
        ExportReadIsWhole

(***************************************************************************)
(* C5: an add_transaction that returns False leaves the observable state   *)
(* (statistics, the set of nodes) as it was before the call.               *)
(***************************************************************************)
C5_FailedWriteChangesNothing ==
    [][(last'.op = "add_transaction" /\ last.op = "idle" /\ ~last'.result)
          => Observable' = Observable]_vars

(***************************************************************************)
(* C6: with start < end and limit at least the number of stored            *)
(* transactions, the window scan returns exactly one record per stored     *)
(* transaction with start <= timestamp < end.                              *)
(***************************************************************************)
C6_WindowOneRecordPerTransaction ==
    (/\ last.op = "get_transactions_in_window"
     /\ last.start_time < last.end_time
     /\ last.limit >= Cardinality(StoredTx)) =>
        LET want == {RecordOf(tx) : tx \in
                        {x \in StoredTx : last.start_time <= x.timestamp
                                          /\ x.timestamp < last.end_time}}
        IN /\ Range(last.result) = want
           /\ Len(last.result) = Cardinality(want)

(***************************************************************************)
(* C7: after clear(), get_statistics reports node_count, edge_count and    *)
(* transaction_count 0 and earliest_time and latest_time None.             *)
(***************************************************************************)
C7_ClearedStatistics ==
    last.op = "clear" =>
        /\ get_statistics(self).node_count = 0
        /\ get_statistics(self).edge_count = 0
        /\ get_statistics(self).transaction_count = 0
        /\ get_statistics(self).earliest_time = None
        /\ get_statistics(self).latest_time = None

\* a clear of a graph that held MaxTx transactions
C7_Witness ==
    /\ last.op = "clear"
    /\ last.before.transaction_count = MaxTx
    /\ last.before.node_count > 0
    /\ last.before.earliest_time # None

(***************************************************************************)
(* C8: after clear() the manager equals a freshly constructed one with the *)
(* same persistent flag, so every later call answers as on a fresh one.    *)
(***************************************************************************)
C8_ClearedIsFresh == last.op = "clear" => self = NewManager(persistent)

\* a clear of a graph that held an edge
C8_Witness == last.op = "clear" /\ last.before.edge_count > 0 /\ self = NewManager(persistent)

(***************************************************************************)
(* C9: after successful add_transaction calls only, node_count is the      *)
(* number of distinct addresses that were sender or receiver.              *)
(***************************************************************************)
C9_NodeCountIsDistinctAddresses ==
    (last.op = "get_statistics" /\ AllSucceeded) =>
        last.result.node_count = Cardinality(AddressesOf(StoredTx))

\* a self-transfer and a second transaction: one node for the two calls
C9_Witness ==
    /\ last.op = "get_statistics"
    /\ AllSucceeded
    /\ Len(log) = 2
    /\ \E tx \in StoredTx : tx.from_address = tx.to_address
    /\ last.result.node_count = 1

(***************************************************************************)
(* C10: for an existing address, get_neighbors lists each distinct         *)
(* receiver of its transactions ("out"), each distinct sender of the       *)
(* transactions it received ("in"), or their union ("both"), once each.    *)
(***************************************************************************)
Receivers(a) == {tx.to_address : tx \in {x \in StoredTx : x.from_address = a}}

Senders(a) == {tx.from_address : tx \in {x \in StoredTx : x.to_address = a}}

C10_Neighbors ==
    (last.op = "get_neighbors" /\ has_node(graph, last.address)) =>
        /\ Injective(last.result)
        /\ last.direction = "out" => Range(last.result) = Receivers(last.address)
        /\ last.direction = "in" => Range(last.result) = Senders(last.address)
        /\ last.direction = "both" =>
               Range(last.result) = Receivers(last.address) \cup Senders(last.address)

\* two transactions to the same receiver and one sender: "both" has two entries
C10_Witness ==
    /\ last.op = "get_neighbors"
    /\ last.direction = "both"
    /\ Len(last.result) = 2
    /\ Receivers(last.address) # {}
    /\ Senders(last.address) # {}
    /\ Receivers(last.address) # Senders(last.address)

(***************************************************************************)
(* C11: for an existing address, get_node_info reports sent_count and      *)
(* received_count = the numbers of stored transactions it sent and         *)
(* received, total_sent and total_received = the sums of their amounts,    *)
(* and balance_flow = total_received - total_sent.                         *)
(***************************************************************************)
SentBy(a) == {tx \in StoredTx : tx.from_address = a}

ReceivedBy(a) == {tx \in StoredTx : tx.to_address = a}

TotalOf(txs) == SumSeq([i \in 1..Cardinality(txs) |-> SetToSeq(txs)[i].amount])

C11_NodeAggregates ==
    (last.op = "get_node_info" /\ has_node(graph, last.address)) =>
        \E info \in last.result :
            /\ info.sent_count = Cardinality(SentBy(last.address))
            /\ info.received_count = Cardinality(ReceivedBy(last.address))
            /\ info.total_sent = TotalOf(SentBy(last.address))
            /\ info.total_received = TotalOf(ReceivedBy(last.address))
            /\ info.balance_flow = info.total_received - info.total_sent

(***************************************************************************)
(* C12: a query on an address that appeared in no transaction since        *)
(* construction or the last clear() gives the empty answer: get_node_info  *)
(* None, get_neighbors the empty list for every direction, find_paths the  *)
(* empty list when either endpoint is such an address.                     *)
(***************************************************************************)
Mentioned == AddressesOf({log[i].tx : i \in DOMAIN log})

C12_AbsentAddressIsEmpty ==
    /\ (last.op = "get_node_info" /\ last.address \notin Mentioned) => last.result = None
    /\ (last.op = "get_neighbors" /\ last.address \notin Mentioned) => last.result = <<>>
    /\ (/\ last.op = "find_paths"
        /\ (last.from_address \notin Mentioned \/ last.to_address \notin Mentioned)) =>
           last.result = <<>>

\* a node-info query for an address that is in no transaction, on a graph that has one
C12_Witness ==
    /\ last.op = "get_node_info"
    /\ last.address \notin Mentioned
    /\ count_edges(graph) > 0
    /\ last.result = None

(***************************************************************************)
(* C13: every read query (get_node_info, get_transactions_in_window,       *)
(* get_neighbors, find_paths, get_statistics) leaves the manager as it     *)
(* was: the graph, the three counters and the persistent flag, whether it  *)
(* finds something, finds nothing or is given invalid arguments.           *)
(***************************************************************************)
ReadOps ==
    {"get_node_info", "get_transactions_in_window", "get_neighbors", "find_paths",
     "get_statistics"}

C13_ReadsChangeNothing ==
    [][(last.op = "idle" /\ last'.op \in ReadOps) => self' = self]_vars

\* a window scan with start >= end answered on a graph whose _node_count differs from
\* its number of nodes
C13_Witness ==
    /\ last.op = "get_transactions_in_window"
    /\ last.start_time >= last.end_time
    /\ _node_count # count_nodes(graph)

(***************************************************************************)
(* C14: the node_count, edge_count and transaction_count that              *)
(* get_statistics reports never decrease from one state to the next unless *)
(* the step is clear(): no add_transaction, successful or failed, and no   *)
(* query lowers one of them.                                               *)
(***************************************************************************)
C14_CountsNeverDecrease ==
    [][last'.op # "clear" =>
          /\ get_statistics(self').node_count >= get_statistics(self).node_count
          /\ get_statistics(self').edge_count >= get_statistics(self).edge_count
          /\ get_statistics(self').transaction_count >= get_statistics(self).transaction_count]_vars

\* a failed add_transaction on a manager that holds a transaction
C14_Witness ==
    /\ last.op = "add_transaction"
    /\ ~last.result
    /\ get_statistics(self).transaction_count > 0

(***************************************************************************)
(* C15: edges are append-only.  A transaction from s to d at timestamp t   *)
(* for which add_transaction returned True is, in every later state before *)
(* the next clear(), returned with its recorded fields by a window scan    *)
(* covering t with a sufficient limit, d is in get_neighbors(s, "out") and *)
(* s is in get_neighbors(d, "in").                                         *)
(***************************************************************************)
Covering(t) ==
    {w \in WindowBounds(Timestamps) \X WindowBounds(Timestamps) : w[1] <= t /\ t < w[2]}

C15_StoredTransactionStays ==
    \A tx \in StoredTx :
        /\ \A w \in Covering(tx.timestamp) :
               RecordOf(tx) \in
                   Range(get_transactions_in_window(self, w[1], w[2], Cardinality(StoredTx)))
        /\ tx.to_address \in Range(get_neighbors(self, tx.from_address, "out"))
        /\ tx.from_address \in Range(get_neighbors(self, tx.to_address, "in"))

(***************************************************************************)
(* C16: writers are mutually exclusive.  When two add_transaction calls,   *)
(* or an add_transaction and a clear(), are issued concurrently, the state *)
(* once they have returned is the state of running them one after the      *)
(* other in some order: no increment is lost, no address is counted as a   *)
(* new node twice.                                                         *)
(***************************************************************************)
Apply(m, call) ==
    IF call.kind = "clear"
    THEN clear(m)
    ELSE add_transaction(m, call.tx, [n1 |-> FALSE, n2 |-> FALSE, e |-> FALSE]).m

\* the states of running the calls of two threads one after the other, each thread's
\* calls in its order
RECURSIVE SerialOutcomes(_, _, _)
SerialOutcomes(m, s1, s2) ==
    IF s1 = <<>> /\ s2 = <<>> THEN {m}
    ELSE (IF s1 = <<>> THEN {} ELSE SerialOutcomes(Apply(m, Head(s1)), Tail(s1), s2))
         \cup (IF s2 = <<>> THEN {} ELSE SerialOutcomes(Apply(m, Head(s2)), s1, Tail(s2)))

C17_WindowEndpointRejects ==
    [][(last'.op = "GET /graph/window" /\ last'.start >= last'.end) =>
          /\ last'.response.status = 400
          /\ last'.response.calls = <<>>
          /\ self' = self]_vars

(***************************************************************************)
(* C18: every path find_paths returns starts with from, ends with to, has  *)
(* at least two nodes, repeats no node, has a stored transaction from each *)
(* node to the next, and no node sequence is returned twice, also when     *)
(* several transactions join the same pair.                                *)
(***************************************************************************)
C18_PathsSoundAndUnique ==
    last.op = "find_paths" =>
        /\ \A i \in DOMAIN last.result :
               LET p == last.result[i]
               IN /\ Len(p) >= 2
                  /\ p[1] = last.from_address
                  /\ p[Len(p)] = last.to_address
                  /\ Injective(p)
                  /\ \A k \in 1..(Len(p) - 1) :
                         \E tx \in StoredTx :
                             tx.from_address = p[k] /\ tx.to_address = p[k + 1]
        /\ Injective(last.result)

\* a path of two edges returned from a graph with two transactions on one pair
C18_Witness ==
    /\ last.op = "find_paths"
    /\ \E i \in DOMAIN last.result : Len(last.result[i]) = 3
    /\ Cardinality(StoredTx) > count_edges(graph)

(***************************************************************************)
(* C19: the list find_paths returns is in non-decreasing length order: a   *)
(* path is never returned before a shorter one.                            *)
(***************************************************************************)
C19_PathsByLength ==
    last.op = "find_paths" =>
        \A i, j \in DOMAIN last.result :
            i < j => Len(last.result[i]) <= Len(last.result[j])

\* two paths of different lengths between the same endpoints
C19_Witness ==
    /\ last.op = "find_paths"
    /\ \E i, j \in DOMAIN last.result : Len(last.result[i]) < Len(last.result[j])

(***************************************************************************)
(* C20: find_paths terminates on every finite graph, cycles, self-loops    *)
(* and from = to included, for every integer max_depth: a search that has  *)
(* begun returns.                                                          *)
(***************************************************************************)
C20_FindPathsTerminates == (pc.loop = "find_paths") ~> (pc.loop = "idle")

\* a search from a node of a cycle to itself has returned
C20_Witness ==
    /\ last.op = "find_paths"
    /\ last.from_address = last.to_address
    /\ last.max_depth = MaxDepth
    /\ \E a \in TopoAddresses :
           /\ a # last.from_address
           /\ a \in Range(get_neighbors(self, last.from_address, "out"))
           /\ last.from_address \in Range(get_neighbors(self, a, "out"))

(***************************************************************************)
(* C21: the window scan returns the first min(limit, k) of the k in-window *)
(* transactions in ascending timestamp order, equal timestamps in          *)
(* insertion order, also when transactions were added out of timestamp     *)
(* order.  Stated for graphs in which no two transactions share a pair.    *)
(***************************************************************************)
\* the records of a set of transactions by timestamp, then by insertion
RECURSIVE ByTime(_)
ByTime(txs) ==
    IF txs = {} THEN <<>>
    ELSE LET first == CHOOSE x \in txs :
                          \A y \in txs : \/ x.timestamp < y.timestamp
                                          \/ (x.timestamp = y.timestamp /\ x.tx_hash <= y.tx_hash)
         IN <<RecordOf(first)>> \o ByTime(txs \ {first})

InWindowTx(start, end) ==
    {x \in StoredTx : start <= x.timestamp /\ x.timestamp < end}

C21_WindowByTimestamp ==
    (/\ last.op = "get_transactions_in_window"
     /\ last.start_time < last.end_time
     /\ Cardinality(StoredTx) = count_edges(graph)) =>
        LET sorted == ByTime(InWindowTx(last.start_time, last.end_time))
        IN last.result = SubSeq(sorted, 1, Min({last.limit, Len(sorted)}))

(***************************************************************************)
(* C22: for an existing address n, get_node_info(n).first_seen is the      *)
(* minimum and last_seen the maximum of the timestamps of the transactions *)
(* in which n was sender or receiver, so first_seen <= last_seen; a        *)
(* transaction older than every earlier one lowers first_seen and leaves   *)
(* last_seen.                                                              *)
(***************************************************************************)
TimesOf(a) == {tx.timestamp : tx \in SentBy(a) \cup ReceivedBy(a)}

IsMinimumOf(t, S) == t \in S /\ \A u \in S : t <= u

IsMaximumOf(t, S) == t \in S /\ \A u \in S : t >= u

C22_FirstAndLastSeen ==
    (last.op = "get_node_info" /\ has_node(graph, last.address)) =>
        \E info \in last.result :
            /\ IsMinimumOf(info.first_seen, TimesOf(last.address))
            /\ IsMaximumOf(info.last_seen, TimesOf(last.address))
            /\ info.first_seen <= info.last_seen

(***************************************************************************)
(* C23: in every reachable state, the earliest_time and latest_time of     *)
(* get_statistics are None exactly when no transaction has been added      *)
(* since construction or the last clear(); otherwise they are the minimum  *)
(* and the maximum timestamp of the added transactions, whatever the order *)
(* of arrival.                                                             *)
(***************************************************************************)
AddedTimes == {tx.timestamp : tx \in StoredTx}

C23_EarliestAndLatest ==
    /\ get_statistics(self).earliest_time =
           (IF AddedTimes = {} THEN None ELSE Some(Min(AddedTimes)))
    /\ get_statistics(self).latest_time =
           (IF AddedTimes = {} THEN None ELSE Some(Max(AddedTimes)))

(***************************************************************************)
(* C24: invalid arguments that reach the manager give an empty list:       *)
(* get_transactions_in_window with limit <= 0 or with start >= end, and    *)
(* find_paths with max_depth <= 0, return [] whatever the graph contains.  *)
(***************************************************************************)
C24_InvalidArgumentsGiveEmpty ==
    /\ (/\ last.op = "get_transactions_in_window"
        /\ (last.limit <= 0 \/ last.start_time >= last.end_time)) =>
           last.result = <<>>
    /\ (last.op = "find_paths" /\ last.max_depth <= 0) => last.result = <<>>

\* a window that holds a stored transaction is scanned with a limit of 0 or less
C24_Witness ==
    /\ last.op = "get_transactions_in_window"
    /\ last.limit <= 0
    /\ last.start_time < last.end_time
    /\ InWindowTx(last.start_time, last.end_time) # {}
    /\ count_edges(window(graph, last.start_time, last.end_time)) > 0
    /\ last.result = <<>>

(***************************************************************************)
(* C25: in every state reached by sequential add_transaction and clear     *)
(* calls the per-node and the global views agree: the sent_count of all    *)
(* nodes and the received_count of all nodes both sum to the edge_count of *)
(* get_statistics, and a transaction is returned by a scan of the full     *)
(* time range exactly when it is in the outgoing edges of its sender and   *)
(* in the incoming edges of its receiver.                                  *)
(***************************************************************************)
InfoOf(a) == CHOOSE info \in get_node_info(self, a) : TRUE

SumOver(f(_), S) == SumSeq([i \in 1..Cardinality(S) |-> f(SetToSeq(S)[i])])

SentCountOf(a) == InfoOf(a).sent_count

ReceivedCountOf(a) == InfoOf(a).received_count

\* a scan of every timestamp with the default limit of the method
FullScan == get_transactions_in_window(self, 0, Max(Timestamps \cup TopoTimestamps) + 1, 1000)

HashesOf(edges) == {LatestUpdate(edges[i]).props.tx_hash : i \in DOMAIN edges}

C25_NodeAndGlobalViewsAgree ==
    /\ SumOver(SentCountOf, NodeNames(graph)) = get_statistics(self).edge_count
    /\ SumOver(ReceivedCountOf, NodeNames(graph)) = get_statistics(self).edge_count
    /\ \A a \in NodeNames(graph) :
           /\ Cardinality({i \in DOMAIN FullScan : FullScan[i].from = a}) = SentCountOf(a)
           /\ Cardinality({i \in DOMAIN FullScan : FullScan[i].to = a}) = ReceivedCountOf(a)
    /\ \A tx \in StoredTx :
           (\E i \in DOMAIN FullScan : FullScan[i].tx_hash = tx.tx_hash) <=>
               /\ tx.tx_hash \in HashesOf(out_edges(graph, tx.from_address))
               /\ tx.tx_hash \in HashesOf(in_edges(graph, tx.to_address))

\* two edges are stored, one of them from an address to itself
C25_Witness ==
    /\ last.op = "add_transaction"
    /\ last.result
    /\ count_edges(graph) = 2
    /\ \E tx \in StoredTx : tx.from_address = tx.to_address
    /\ SumOver(SentCountOf, NodeNames(graph)) = 2

UpdatesOf(g) == SumSeq([i \in DOMAIN g.edges |-> Len(g.edges[i].updates)])

C27_AddTransactionContract ==
    [][(last'.op = "POST /graph/transaction" /\ graph_manager # None) =>
          LET inserted == UpdatesOf(graph') = UpdatesOf(graph) + 1
          IN /\ last'.success \in BOOLEAN
             /\ last'.success <=>
                    (inserted /\ get_statistics(self').transaction_count =
                                    get_statistics(self).transaction_count + 1)
             /\ ~last'.success =>
                    /\ UpdatesOf(graph') = UpdatesOf(graph)
                    /\ _transaction_count' = _transaction_count
                    /\ _edge_count' = _edge_count
             /\ last'.response.status = (IF last'.success THEN 201 ELSE 500)]_vars

\* a transaction is posted and stored, the next one posted fails at the edge
C27_Witness ==
    /\ last.op = "POST /graph/transaction"
    /\ Len(log) = 2
    /\ log[1].ok
    /\ ~log[2].ok
    /\ last.response.status = 500
    /\ _transaction_count = 1
    /\ count_nodes(graph) > Cardinality(AddressesOf({log[1].tx}))

(***************************************************************************)
(* C28: as long as startup_event has not created the GraphManager, every   *)
(* graph endpoint (health, add transaction, node, window, neighbors,       *)
(* paths, statistics, snapshot, clear) answers 503 and performs no graph   *)
(* operation; once it has, no endpoint answers 503 and the health endpoint *)
(* reports status healthy with the current statistics.                     *)
(***************************************************************************)
GraphEndpoints ==
    {"GET /health", "POST /graph/transaction", "GET /graph/node", "GET /graph/window",
     "GET /graph/neighbors", "GET /graph/paths", "GET /graph/statistics",
     "POST /graph/snapshot", "DELETE /graph/clear"}

C28_ServiceLifecycle ==
    [][last'.op \in GraphEndpoints =>
          IF graph_manager = None
          THEN /\ last'.response.status = 503
               /\ last'.response.calls = <<>>
               /\ self' = self
          ELSE /\ last'.response.status # 503
               /\ last'.op = "GET /health" =>
                      /\ last'.response.status = 200
                      /\ last'.response.body.status = "healthy"
                      /\ last'.response.body.graph_stats = get_statistics(self)]_vars

(***************************************************************************)
(* C29: in every state reached by add_transaction and clear calls, those   *)
(* in which a node or edge insertion failed included, the private counters *)
(* agree with the graph: _node_count = graph.count_nodes() and             *)
(* _edge_count = _transaction_count = graph.count_edges(), so that the     *)
(* except branch of get_statistics reports the counts of its try branch.   *)
(***************************************************************************)
C29_CountersAgreeWithGraph ==
    /\ _node_count = count_nodes(graph)
    /\ _edge_count = _transaction_count
    /\ _transaction_count = count_edges(graph)
    /\ get_statistics_fallback(self).node_count = get_statistics(self).node_count
    /\ get_statistics_fallback(self).edge_count = get_statistics(self).edge_count
    /\ get_statistics_fallback(self).transaction_count = get_statistics(self).transaction_count

====
